---------------------------- MODULE Spec2Model ----------------------------
(***************************************************************************)
(* Model of the two variants of the ZIP service.  The session variant      *)
(* (src/unnamed/part_000): the session registry, the multer disk storage,  *)
(* the /iniciar, /upload and /comprimir handlers and compressZIP.  The     *)
(* stateless variant (src/index.js): the multer upload with its file       *)
(* filter, POST /comprimir, createZip, GET /descargar/:filename and the     *)
(* WhatsApp webhook.  Each variant is a server of its own: a behaviour is a *)
(* run of one of them.                                                     *)
(*                                                                         *)
(* Node runs every handler to its next await on one thread, so an action   *)
(* is one run-to-suspension slice of a handler.  The suspension points are *)
(* multer's storage of each file part, `await fsp.mkdir` in compressZIP    *)
(* and the wait for the output stream's close event.                       *)
(***************************************************************************)
EXTENDS Naturals, Sequences, FiniteSets

(* ------------------------------ bounds -------------------------------- *)

\* Date.now() takes the values 0..MaxClock.
MaxClock == 1

\* File parts stored by multer over the whole run; part c carries content c,
\* so any two parts have distinct contents.
MaxParts == 2

\* Requests the service receives over the whole run.
MaxRequests == 3
MaxStored == 1

(* --------------------------- request inputs --------------------------- *)

\* JavaScript values a chatId can take: a property the request does not carry
\* (undefined), a string, an array of strings (a JSON body, or a repeated
\* query parameter).
Undefined == [type |-> "undefined"]
Str(s) == [type |-> "string", val |-> s]
Arr(q) == [type |-> "array", val |-> q]

\* Values of req.body.chatId and of req.query.chatId in the requests the
\* handlers are run on.
ChatVals == {Undefined, Str("a")}

\* A request as the handlers read it: the chatId field of the body and the
\* chatId parameter of the query string.
Requests == [body : ChatVals, query : ChatVals]

\* JavaScript's falsiness of a chatId value, as `||` tests it: undefined and
\* the empty string are falsy, every array is truthy.
Falsy(v) == v.type = "undefined" \/ (v.type = "string" /\ v.val = "")

\* Array.prototype.join(","), which Array.prototype.toString calls.
RECURSIVE Join(_)
Join(q) ==
    IF q = <<>> THEN ""
    ELSE IF Len(q) = 1 THEN q[1]
    ELSE q[1] \o "," \o Join(Tail(q))

\* part_000:30  (...).toString() of a truthy chatId value
ToString(v) == IF v.type = "array" THEN Join(v.val) ELSE v.val

\* part_000:29-31
getChatId(req) ==
    IF ~Falsy(req.body) THEN ToString(req.body)
    ELSE IF ~Falsy(req.query) THEN ToString(req.query)
    ELSE "default"

\* The session keys the requests above resolve to.
Keys == {getChatId(r) : r \in Requests}

\* Original names of file parts, as sequences of characters: two names that
\* differ in a character the storage name does not keep.
OrigNames == { <<"f", " ">>, <<"f", "_">> }

\* The characters the regular expression /[^a-zA-Z0-9._-]/ leaves alone.
SafeChars ==
    { "a", "b", "c", "d", "e", "f", "g", "h", "i", "j", "k", "l", "m",
      "n", "o", "p", "q", "r", "s", "t", "u", "v", "w", "x", "y", "z",
      "A", "B", "C", "D", "E", "F", "G", "H", "I", "J", "K", "L", "M",
      "N", "O", "P", "Q", "R", "S", "T", "U", "V", "W", "X", "Y", "Z",
      "0", "1", "2", "3", "4", "5", "6", "7", "8", "9", ".", "_", "-" }

\* part_000:46  file.originalname.replace(/[^a-zA-Z0-9._-]/g, "_")
Sanitize(name) ==
    [i \in 1..Len(name) |-> IF name[i] \in SafeChars THEN name[i] ELSE "_"]

\* part_000:47  `${Date.now()}-${safe}`
StorageName(t, name) == <<t, Sanitize(name)>>

\* part_000:38 and multer's file.path: path.join(UPLOAD_DIR, chatId, filename)
FilePath(dir, fname) == [dir |-> dir, name |-> fname]

\* part_000:63  path.basename(f)
Basename(p) == p.name

(* ------------------------------- state -------------------------------- *)

VARIABLES
    variant,    \* what runs: "session", "stateless", "webhook" or "probe"
    now,        \* Date.now()
    sessions,   \* the Map `sessions`: key -> session object, or NoSession
    disk,       \* UPLOAD_DIR: file path -> content of the file
    outDisk,    \* OUTPUT_DIR: archive name -> the archive file
    up,         \* the /upload request multer is parsing, or NoUpload
    builds,     \* the /comprimir requests that reached compressZIP
    nextPart,   \* the next file part to arrive (its content)
    nReqs,      \* the requests received so far
    resp,       \* the response sent by the last step, or NoResp
    probe,      \* a request whose session key is resolved on its own
    zup,        \* stateless: the POST /comprimir request multer is parsing
    zdisk,      \* stateless: UPLOAD_DIR, file path -> content of the file
    zout,       \* stateless: OUTPUT_DIR, archive name -> the archive file
    zbuilds,    \* stateless: the requests in createZip or with a timer due
    zparts,     \* stateless: the file parts stored so far
    alive       \* stateless: the process runs

\* The state only the session variant changes.
svars == <<sessions, disk, outDisk, up, builds, nextPart>>

\* The state only the key resolution changes.
pvars == <<probe>>

\* The state only the stateless variant changes.
tvars == <<zup, zdisk, zout, zbuilds, zparts, alive>>

vars == <<variant, now, nReqs, resp, svars, pvars, tvars>>

\* The session variant runs; its steps leave the rest alone.
Session == variant = "session"
SessionFrame == UNCHANGED <<variant, pvars, tvars>>

\* The stateless variant runs, its upload route and its webhook apart, each
\* with createZip; it takes no step once the process has terminated.
Stateless == variant \in {"stateless", "webhook"} /\ alive
StatelessFrame == UNCHANGED <<variant, pvars, svars>>

\* sessions.has(key) is false
NoSession == [has |-> FALSE]

NoUpload == [active |-> FALSE]

NoResp == [op |-> "none"]

\* A suspended /comprimir handler holds the array s.files by reference.  While
\* the registry maps the key to the same session object the handler sees every
\* push (Live); once the registry has let go of that object (sessions.set or
\* sessions.delete) nothing can reach the array but such handlers, which only
\* read it, so it keeps the value it had then (Detached).
Live == [live |-> TRUE]
Detached(list) == [live |-> FALSE, list |-> list]

\* sessions.has(k)
Has(k) == sessions[k] # NoSession

\* The file list of key k: the entries of its session, none without session.
\* An entry is a file location tagged with the file part stored there; the
\* tag is never read by the handlers.
FilesOf(k) == IF Has(k) THEN sessions[k].files ELSE <<>>

\* The array build b holds, as it is now.
ArrayOf(b) == IF b.files.live THEN FilesOf(b.chatId) ELSE b.files.list

SessionInit ==
    /\ now = 0
    /\ sessions = [k \in Keys |-> NoSession]
    /\ disk = << >>
    /\ outDisk = << >>
    /\ up = NoUpload
    /\ builds = << >>
    /\ nextPart = 1
    /\ nReqs = 0
    /\ resp = NoResp

\* A request arrives.
Receive == nReqs < MaxRequests /\ nReqs' = nReqs + 1

\* The clock advances between any two steps.
Tick ==
    /\ variant \in {"session", "stateless", "webhook"}
    /\ now < MaxClock
    /\ now' = now + 1
    /\ resp' = NoResp
    /\ UNCHANGED <<variant, nReqs, svars, pvars, tvars>>

(* ------------------------ the session registry ------------------------ *)

\* part_000:26, 76  { files: [], createdAt: Date.now() }
NewSession(t) == [has |-> TRUE, files |-> <<>>, createdAt |-> t]

\* part_000:25-28  the registry after ensureSession(k)
ensureSession(sess, k, t) ==
    IF sess[k] # NoSession THEN sess ELSE [sess EXCEPT ![k] = NewSession(t)]

\* A reset that keeps a session that exists, as ensureSession does.
ResetKeepsExisting(sess, k, t) ==
    IF sess[k] # NoSession THEN sess ELSE [sess EXCEPT ![k] = NewSession(t)]

\* part_000:76  sessions.set(chatId, { files: [], createdAt: Date.now() })
ResetSession(sess, k, t) == [sess EXCEPT ![k] = NewSession(t)]

\* A push at the front of the array (unshift).
PushFront(list, saved) == saved \o list

\* part_000:88  s.files.push(...saved)
Push(list, saved) == list \o saved

\* The session kept after a build (line 112 commented out).
KeepSession(sess, k) == sess

\* part_000:112  sessions.delete(chatId)
DeleteSession(sess, k) == [sess EXCEPT ![k] = NoSession]

\* The suspended builds after the registry lets go of the session object of
\* key k: those that hold its array keep the array as it is.
Release(bs, k) ==
    [i \in 1..Len(bs) |->
        IF bs[i].pc \in {"mkdir", "finalized"} /\ bs[i].chatId = k /\ bs[i].files.live
        THEN [bs[i] EXCEPT !.files = Detached(FilesOf(k))]
        ELSE bs[i]]

(* ------------------------------ /iniciar ------------------------------ *)

\* part_000:74-81
Iniciar(req) ==
    LET chatId == getChatId(req)
    IN  /\ Session
        /\ Receive
        /\ sessions' = ResetSession(sessions, chatId, now)
        /\ builds' = Release(builds, chatId)
        /\ resp' = [op |-> "iniciar", chatId |-> chatId, status |-> 200]
        /\ UNCHANGED <<now, disk, outDisk, up, nextPart>>
        /\ SessionFrame

(* ------------------------------ /upload ------------------------------- *)

\* The request as multer's storage sees it while the body is being parsed:
\* req.body holds the chatId field only once the field has been read.
ReqSoFar(u) ==
    [body |-> IF u.bodySeen THEN u.req.body ELSE Undefined, query |-> u.req.query]

\* A multipart POST /upload arrives; upload.array("fotos") starts parsing it.
UploadBegin(req) ==
    /\ Session
    /\ up = NoUpload
    /\ Receive
    /\ up' = [active |-> TRUE, req |-> req, bodySeen |-> FALSE, files |-> <<>>]
    /\ resp' = NoResp
    /\ UNCHANGED <<now, sessions, disk, outDisk, builds, nextPart>>
    /\ SessionFrame

\* multer reads the chatId field of the multipart body into req.body.
UploadField ==
    /\ Session
    /\ up # NoUpload
    /\ up.req.body # Undefined
    /\ ~up.bodySeen
    /\ up' = [up EXCEPT !.bodySeen = TRUE]
    /\ resp' = NoResp
    /\ UNCHANGED <<now, sessions, disk, outDisk, builds, nextPart, nReqs>>
    /\ SessionFrame

\* The disk after a file is written at path p with content c.
WriteFile(d, p, c) ==
    [q \in DOMAIN d \cup {p} |-> IF q = p THEN c ELSE d[q]]

\* part_000:34-49  multer stores the next file part: destination, filename,
\* then the write; the stored file joins req.files.
UploadPart(name) ==
    /\ Session
    /\ up # NoUpload
    /\ nextPart <= MaxParts
    /\ LET dir == getChatId(ReqSoFar(up))
           p == FilePath(dir, StorageName(now, name))
       IN  /\ disk' = WriteFile(disk, p, nextPart)
           /\ up' = [up EXCEPT !.files = Append(@, [path |-> p, part |-> nextPart])]
    /\ nextPart' = nextPart + 1
    /\ resp' = NoResp
    /\ UNCHANGED <<now, sessions, outDisk, builds, nReqs>>
    /\ SessionFrame

\* part_000:84-95  the handler, run once multer has parsed the whole body
UploadHandle ==
    /\ Session
    /\ up # NoUpload
    /\ LET chatId == getChatId(up.req)
           sess == ensureSession(sessions, chatId, now)
           saved == up.files
           list == Push(sess[chatId].files, saved)
       IN  /\ sessions' = [sess EXCEPT ![chatId].files = list]
           /\ resp' = [op |-> "upload", chatId |-> chatId, status |-> 200,
                       recibidasAhora |-> Len(saved),
                       totalSesion |-> Len(list)]
    /\ up' = NoUpload
    /\ UNCHANGED <<now, disk, outDisk, builds, nextPart, nReqs>>
    /\ SessionFrame

(* ----------------------------- /comprimir ----------------------------- *)

\* part_000:106  `fotos_${chatId}_${Date.now()}.zip`
OutName(chatId, t) == <<chatId, t>>

\* An emptiness test that never fires.
NeverEmpty(list) == FALSE

\* part_000:102  !s.files.length
IsEmpty(list) == Len(list) = 0

\* A build whose handler has answered: the handler's reference to the array
\* is gone; a failed build leaves nothing behind that is looked at again.
Ended(b, pc) ==
    IF pc = "done"
    THEN [b EXCEPT !.pc = pc, !.files = Detached(<<>>)]
    ELSE [b EXCEPT !.pc = pc, !.files = Detached(<<>>),
                   !.startFiles = <<>>, !.entries = <<>>]

\* A catch block that clears the session as the success path does.
CatchDeletes(sess, k) == [sess EXCEPT ![k] = NoSession]

\* part_000:116-119  the registry after the catch block: it is left alone
CatchRegistry(sess, k) == sess

\* part_000:98-110  the handler up to `await fsp.mkdir` in compressZIP
Comprimir(req) ==
    LET chatId == getChatId(req)
        sess == ensureSession(sessions, chatId, now)
        s == sess[chatId]
    IN  /\ Session
        /\ Receive
        /\ sessions' = sess
        /\ IF IsEmpty(s.files)
           THEN /\ resp' = [op |-> "comprimir", chatId |-> chatId, status |-> 400]
                /\ builds' = builds
           ELSE /\ builds' = Append(builds,
                       [pc |-> "mkdir", chatId |-> chatId, files |-> Live,
                        outName |-> OutName(chatId, now),
                        startFiles |-> s.files, entries |-> <<>>])
                /\ resp' = NoResp
        /\ UNCHANGED <<now, disk, outDisk, up, nextPart>>
        /\ SessionFrame

\* part_000:54, 116-118  fsp.mkdir rejects: the catch answers 500
BuildMkdirFail(i) ==
    /\ Session
    /\ i \in 1..Len(builds)
    /\ builds[i].pc = "mkdir"
    /\ builds' = [builds EXCEPT ![i] = Ended(@, "failed")]
    /\ sessions' = CatchRegistry(sessions, builds[i].chatId)
    /\ resp' = [op |-> "comprimir", chatId |-> builds[i].chatId, status |-> 500,
                build |-> i]
    /\ UNCHANGED <<now, disk, outDisk, up, nextPart, nReqs>>
    /\ SessionFrame

\* The output directory after name is given the file f.
WriteOut(d, name, f) ==
    [q \in DOMAIN d \cup {name} |-> IF q = name THEN f ELSE d[q]]

\* fs.createWriteStream: the output file exists, empty, and is being written.
Opened == [complete |-> FALSE, members |-> <<>>]

\* The output file when finalize() returns: nothing of it is flushed yet.
AtFinalize(members) == Opened

\* part_000:59, index.js:56-59  the output file when the promise of the
\* build resolves, in the listener of the stream's "close": whole and closed.
AtResolve(members) == [complete |-> TRUE, members |-> members]

\* part_000:55-64  fsp.mkdir resolved: the output file is opened, every entry
\* of the array is queued with archive.file, the archive is finalized
BuildQueue(i) ==
    /\ Session
    /\ i \in 1..Len(builds)
    /\ builds[i].pc = "mkdir"
    /\ builds' = [builds EXCEPT ![i].pc = "finalized",
                                ![i].entries = ArrayOf(builds[i])]
    /\ outDisk' = WriteOut(outDisk, builds[i].outName, Opened)
    /\ resp' = NoResp
    /\ UNCHANGED <<now, sessions, disk, up, nextPart, nReqs>>
    /\ SessionFrame

\* part_000:60, 116-118  the archive emits "error": the catch answers 500
BuildError(i) ==
    /\ Session
    /\ i \in 1..Len(builds)
    /\ builds[i].pc = "finalized"
    /\ builds' = [builds EXCEPT ![i] = Ended(@, "failed")]
    /\ sessions' = CatchRegistry(sessions, builds[i].chatId)
    /\ resp' = [op |-> "comprimir", chatId |-> builds[i].chatId, status |-> 500,
                build |-> i]
    /\ UNCHANGED <<now, disk, outDisk, up, nextPart, nReqs>>
    /\ SessionFrame

\* The members archiver writes for the queued entries: each under the
\* basename of its location, with the bytes the location holds.
Members(entries, d) ==
    [j \in 1..Len(entries) |->
        [name |-> Basename(entries[j].path), content |-> d[entries[j].path]]]

\* part_000:59, 110-115  the output stream closes: compressZIP resolves, the
\* handler deletes the session and sends the archive
BuildClose(i) ==
    /\ Session
    /\ i \in 1..Len(builds)
    /\ builds[i].pc = "finalized"
    /\ outDisk' = WriteOut(outDisk, builds[i].outName,
                           AtResolve(Members(builds[i].entries, disk)))
    /\ sessions' = DeleteSession(sessions, builds[i].chatId)
    /\ builds' = [Release(builds, builds[i].chatId) EXCEPT ![i] = Ended(@, "done")]
    /\ resp' = [op |-> "comprimir", chatId |-> builds[i].chatId, status |-> 200,
                build |-> i]
    /\ UNCHANGED <<now, disk, up, nextPart, nReqs>>
    /\ SessionFrame

\* The steps of the session variant.
SessionNext ==
    \/ Tick
    \/ \E req \in Requests : Iniciar(req)
    \/ \E req \in Requests : UploadBegin(req)
    \/ UploadField
    \/ \E name \in OrigNames : UploadPart(name)
    \/ UploadHandle
    \/ \E req \in Requests : Comprimir(req)
    \/ \E i \in 1..MaxRequests : BuildMkdirFail(i)
    \/ \E i \in 1..MaxRequests : BuildQueue(i)
    \/ \E i \in 1..MaxRequests : BuildError(i)
    \/ \E i \in 1..MaxRequests : BuildClose(i)

(* ----------------- the stateless variant: the file filter -------------- *)

\* Strings the filter looks into are sequences of characters.

\* index.js:39  the alternatives of /jpeg|jpg|png|gif|pdf|zip/
FileTypes ==
    { <<"j", "p", "e", "g">>, <<"j", "p", "g">>, <<"p", "n", "g">>,
      <<"g", "i", "f">>, <<"p", "d", "f">>, <<"z", "i", "p">> }

\* The string holds sub somewhere.
Contains(str, sub) ==
    \E i \in 1..(Len(str) + 1 - Len(sub)) :
        SubSeq(str, i, i + Len(sub) - 1) = sub

\* index.js:40-41  filetypes.test(str): the expression is not anchored, it
\* matches when any alternative occurs anywhere in the string.
RegexTest(str) == \E alt \in FileTypes : Contains(str, alt)

\* String.prototype.toLowerCase, on the letters the inputs use.
LowerChar(c) ==
    CASE c = "P" -> "p" [] c = "N" -> "n" [] c = "G" -> "g" [] OTHER -> c

ToLowerCase(str) == [i \in 1..Len(str) |-> LowerChar(str[i])]

\* path.extname of a file name without directories: from the last "." to the
\* end, or nothing when there is no "." or the only one starts the name.
LastDot(name) ==
    LET dots == {i \in 1..Len(name) : name[i] = "."}
    IN  IF dots = {} THEN 0 ELSE CHOOSE i \in dots : \A j \in dots : j <= i

Extname(name) ==
    IF LastDot(name) <= 1 THEN <<>> ELSE SubSeq(name, LastDot(name), Len(name))

\* index.js:38-46  fileFilter accepts the file
FileFilter(file) ==
    /\ RegexTest(file.mimetype)
    /\ RegexTest(ToLowerCase(Extname(file.originalname)))

\* The file parts a client sends: declared MIME type and original name.
Parts ==
    { [mimetype |-> <<"i", "m", "a", "g", "e", "/", "p", "n", "g">>,
       originalname |-> <<"a", ".", "P", "N", "G">>],
      [mimetype |-> <<"t", "e", "x", "t", "/", "p", "l", "a", "i", "n">>,
       originalname |-> <<"a", ".", "t", "x", "t">>],
      [mimetype |-> <<"a", "p", "p", "l", "i", "c", "a", "t", "i", "o", "n", "/", "g", "z", "i", "p">>,
       originalname |-> <<"a", ".", "g", "z", "i", "p">>] }

(* ---------------- the stateless variant: POST /comprimir --------------- *)

NoZup == [active |-> FALSE]

\* The requests of the stateless variant that store something are counted
\* and bounded; the others leave nothing behind but their answer.
ZReceive == nReqs < MaxStored /\ nReqs' = nReqs + 1

\* index.js:30  Math.round(Math.random() * 1E9).  One value: two parts stored
\* in the same millisecond may draw the same number, and parts stored in
\* different milliseconds have different names whatever they draw.
Rands == {0}

\* index.js:48  .array('files', 10)
MaxFiles == 10

\* index.js:29-32  the storage name: Date.now(), the random number and the
\* extension of the original name, as sent.
UploadName(t, r, orig) == [t |-> t, r |-> r, ext |-> Extname(orig)]

\* index.js:102-103  the request arrives and multer starts to parse its body
ZBegin ==
    /\ Stateless
    /\ variant = "stateless"
    /\ zup = NoZup
    /\ ZReceive
    /\ zup' = [active |-> TRUE, files |-> <<>>, err |-> ""]
    /\ resp' = NoResp
    /\ UNCHANGED <<now, zdisk, zout, zbuilds, zparts, alive>>
    /\ StatelessFrame

\* fs.unlink of every file of the list
Unlink(d, files) ==
    [p \in DOMAIN d \ {files[j].path : j \in 1..Len(files)} |-> d[p]]

\* index.js:25-48  multer meets the next file part: past the file count it
\* gives up, else it asks the filter and, when that accepts, stores the part
\* before it reads on.
ZPart(file, r) ==
    /\ Stateless
    /\ zup # NoZup
    /\ zup.err = ""
    /\ zparts < MaxParts
    /\ IF Len(zup.files) < MaxFiles /\ FileFilter(file)
       THEN LET p == UploadName(now, r, file.originalname)
            IN  /\ zdisk' = WriteFile(zdisk, p, zparts + 1)
                /\ zup' = [zup EXCEPT !.files = Append(@,
                               [path |-> p, originalname |-> file.originalname])]
                /\ zparts' = zparts + 1
       ELSE /\ zup' = [zup EXCEPT !.err =
                           IF Len(zup.files) < MaxFiles
                           THEN "Solo se permiten archivos de imagen, PDF o ZIP"
                           ELSE "Unexpected field"]
            /\ UNCHANGED <<zdisk, zparts>>
    /\ resp' = NoResp
    /\ UNCHANGED <<now, nReqs, zout, zbuilds, alive>>
    /\ StatelessFrame

\* index.js:37  a part larger than limits.fileSize: multer gives up while the
\* part is being stored.
ZPartTooBig(file, r) ==
    /\ Stateless
    /\ zup # NoZup
    /\ zup.err = ""
    /\ zparts < MaxParts
    /\ Len(zup.files) < MaxFiles
    /\ FileFilter(file)
    /\ LET p == UploadName(now, r, file.originalname)
       IN  /\ zdisk' = WriteFile(zdisk, p, zparts + 1)
           /\ zup' = [zup EXCEPT !.err = "File too large",
                                 !.files = Append(@,
                                     [path |-> p, originalname |-> file.originalname])]
    /\ zparts' = zparts + 1
    /\ resp' = NoResp
    /\ UNCHANGED <<now, nReqs, zout, zbuilds, alive>>
    /\ StatelessFrame

\* Files left behind after a rejection.
AbortKeepsFiles(d, files) == d

\* The files of the request multer leaves in UPLOAD_DIR when it gives up:
\* none, it removes what it stored before it reports the error.
AfterAbort(d, files) == Unlink(d, files)

\* index.js:103-110  multer has given up: it reports the error and the
\* handler answers
ZAbort ==
    /\ Stateless
    /\ zup # NoZup
    /\ zup.err # ""
    /\ zdisk' = AfterAbort(zdisk, zup.files)
    /\ resp' = [op |-> "POST /comprimir", status |-> 400, code |-> "UPLOAD_ERROR",
                error |-> zup.err, filename |-> ""]
    /\ zup' = NoZup
    /\ UNCHANGED <<now, nReqs, zout, zbuilds, zparts, alive>>
    /\ StatelessFrame

\* Date.now() as the template literal prints it.
Digits == <<"0", "1", "2", "3", "4", "5", "6", "7", "8", "9">>
NumToString(n) == Digits[n + 1]

\* index.js:121-122  `archivos-${timestamp}.zip`
ZipName(t) == "archivos-" \o NumToString(t) \o ".zip"

\* index.js:67-70  the members archiver writes: a queued file that is gone
\* when archiver looks for it is left out (archiver emits a "warning").
ZMembers(files, d) ==
    LET there == SelectSeq(files, LAMBDA f : f.path \in DOMAIN d)
    IN  [j \in 1..Len(there) |->
            [name |-> there[j].originalname, content |-> d[there[j].path]]]

\* index.js:110-126, 51-73  the body is parsed: without files the handler
\* answers 400; else it names the archive and calls createZip, which opens
\* the output, queues the files and finalizes before the handler awaits.
ZHandle ==
    /\ Stateless
    /\ zup # NoZup
    /\ zup.err = ""
    /\ IF zup.files = <<>>
       THEN /\ resp' = [op |-> "POST /comprimir", status |-> 400,
                        code |-> "NO_FILES", error |-> "No se han subido archivos",
                        filename |-> ""]
            /\ UNCHANGED <<zout, zbuilds>>
       ELSE /\ zbuilds' = Append(zbuilds,
                               [pc |-> "finalized", kind |-> "comprimir",
                                name |-> ZipName(now),
                                files |-> zup.files])
            /\ zout' = WriteOut(zout, ZipName(now), Opened)
            /\ resp' = NoResp
    /\ zup' = NoZup
    /\ UNCHANGED <<now, nReqs, zdisk, zparts, alive>>
    /\ StatelessFrame

\* The answer of the route that started build b.
ZAnswer(b, status, code) ==
    [op |-> IF b.kind = "webhook" THEN "POST /webhook/whatsapp" ELSE "POST /comprimir",
     status |-> status, code |-> code, error |-> "", filename |-> b.name]

\* The list without its i-th element: a handler that has returned and has no
\* timer due holds nothing any more.
RemoveAt(q, i) == SubSeq(q, 1, i - 1) \o SubSeq(q, i + 1, Len(q))

\* index.js:60-63, 143-151, 513-519  the archive emits "error": createZip
\* rejects and the catch block answers 500
ZBuildError(i) ==
    /\ Stateless
    /\ i \in 1..Len(zbuilds)
    /\ zbuilds[i].pc = "finalized"
    /\ zbuilds' = RemoveAt(zbuilds, i)
    /\ resp' = ZAnswer(zbuilds[i], 500,
                       IF zbuilds[i].kind = "webhook" THEN "" ELSE "COMPRESSION_ERROR")
    /\ UNCHANGED <<now, nReqs, zup, zdisk, zout, zparts, alive>>
    /\ StatelessFrame

\* index.js:53-73  the output stream emits "error" (the file cannot be
\* opened or written): createZip listens for "close" on the output and for
\* "error" on the archive only, so the event has no listener and Node throws
\* it as an uncaught exception, which ends the process.  What the process
\* held in memory is gone; the requests it had not answered stay unanswered.
ZOutputError(i) ==
    /\ Stateless
    /\ i \in 1..Len(zbuilds)
    /\ zbuilds[i].pc = "finalized"
    /\ alive' = FALSE
    /\ zup' = NoZup
    /\ zbuilds' = <<>>
    /\ resp' = [op |-> "exit",
                unanswered |-> Cardinality({j \in 1..Len(zbuilds) :
                                               zbuilds[j].pc # "done"})
                               + IF zup = NoZup THEN 0 ELSE 1]
    /\ UNCHANGED <<now, nReqs, zdisk, zout, zparts>>
    /\ StatelessFrame

\* index.js:56-59, 126-141, 471-498  the output stream closes: createZip
\* resolves, the handler sets the clean-up timer and answers with the name of
\* the archive
ZBuildClose(i) ==
    /\ Stateless
    /\ i \in 1..Len(zbuilds)
    /\ zbuilds[i].pc = "finalized"
    /\ zout' = WriteOut(zout, zbuilds[i].name,
                        AtResolve(ZMembers(zbuilds[i].files, zdisk)))
    /\ zbuilds' = [zbuilds EXCEPT ![i].pc = "done"]
    /\ resp' = ZAnswer(zbuilds[i], 200, "")
    /\ UNCHANGED <<now, nReqs, zup, zdisk, zparts, alive>>
    /\ StatelessFrame

\* index.js:78-84, 132, 477-481  the timer fires: the stored files of the
\* request are unlinked
ZCleanup(i) ==
    /\ Stateless
    /\ i \in 1..Len(zbuilds)
    /\ zbuilds[i].pc = "done"
    /\ zdisk' = Unlink(zdisk, zbuilds[i].files)
    /\ zbuilds' = RemoveAt(zbuilds, i)
    /\ resp' = NoResp
    /\ UNCHANGED <<now, nReqs, zup, zout, zparts, alive>>
    /\ StatelessFrame

(* ----------- the stateless variant: GET /descargar/:filename ----------- *)

\* req.params.filename, decoded, as the segments between its "/": Express
\* matches the parameter against the encoded URL and decodes it afterwards,
\* so "..%2Findex.js" arrives as "../index.js".
DownloadNames ==
    {<<ZipName(t)>> : t \in 0..MaxClock}
        \cup {<<"missing.zip">>, <<"..", "index.js">>, <<"..", "uploads">>}

\* index.js:13  OUTPUT_DIR, relative to __dirname
OUTPUT_DIR == <<"paquetes">>

\* path.join: the segments are put together and ".." takes the segment before
\* it away.
RECURSIVE Normalize(_, _)
Normalize(done, rest) ==
    IF rest = <<>> THEN done
    ELSE IF rest[1] = ".."
         THEN Normalize(IF done = <<>> THEN <<>> ELSE SubSeq(done, 1, Len(done) - 1),
                        Tail(rest))
         ELSE Normalize(Append(done, rest[1]), Tail(rest))

PathJoin(dir, name) == Normalize(<<>>, dir \o name)

\* The files under __dirname a download name can reach: the archives in
\* OUTPUT_DIR and the script of the server itself.
IsArchivePath(p) == Len(p) = 2 /\ p[1] = "paquetes" /\ p[2] \in DOMAIN zout
IsFile(p) == IsArchivePath(p) \/ p = <<"index.js">>
IsDirectory(p) == p \in {<<>>, <<"paquetes">>, <<"uploads">>}

\* index.js:159  fs.existsSync
ExistsSync(p) == IsFile(p) \/ IsDirectory(p)

\* index.js:156-182
Descargar(name) ==
    LET filePath == PathJoin(OUTPUT_DIR, name)
    IN  /\ Stateless
        /\ variant = "stateless"
        /\ resp' =
              IF ~ExistsSync(filePath)
              THEN [op |-> "GET /descargar", status |-> 404, name |-> name]
              ELSE IF IsFile(filePath)
              THEN [op |-> "GET /descargar", status |-> 200, name |-> name,
                    served |-> filePath]
              ELSE [op |-> "GET /descargar", status |-> 500, name |-> name]
        /\ UNCHANGED <<now, nReqs, tvars>>
        /\ StatelessFrame

(* ------------------ the stateless variant: the webhook ----------------- *)

\* index.js:388-403  GET /webhook/whatsapp: the token matches or it does not
WebhookVerify(tokenOk) ==
    /\ Stateless
    /\ variant = "webhook"
    /\ resp' = [op |-> "GET /webhook/whatsapp",
                status |-> IF tokenOk THEN 200 ELSE 403]
    /\ UNCHANGED <<now, nReqs, tvars>>
    /\ StatelessFrame

\* The payloads of POST /webhook/whatsapp, by what the handler finds in
\* them: a status update, no message, a text message, an image or document
\* without media id, a document whose filename is not a string (with or
\* without id: split throws before the id is looked at), an image or
\* document with its id.
Payloads == {"statuses", "nomessage", "text", "noid", "badfilename", "media"}

\* A webhook that answers 200 to a message without media id as well.
HookStatusNoId200(payload) == IF payload = "badfilename" THEN 500 ELSE 200

\* The status the handler answers with when it does not reach its first
\* await.  index.js:410-420 (200), 436-442 (400), 505-511 (200), 433-434
\* and 513-519 (500: filename.split throws inside the try).
HookStatus(payload) ==
    CASE payload \in {"statuses", "nomessage", "text"} -> 200
      [] payload = "noid" -> 400
      [] OTHER -> 500

\* index.js:445  `whatsapp-${Date.now()}.${fileExt}` in UPLOAD_DIR
WhatsappFile(t) == [whatsapp |-> t, ext |-> "jpg"]

\* index.js:472  `whatsapp-${timestamp}.zip`
WhatsappZip(t) == "whatsapp-" \o NumToString(t) \o ".zip"

\* index.js:406-468  the handler up to `await fs.promises.writeFile`, or to
\* its answer when it does not get there
Webhook(payload) ==
    /\ Stateless
    /\ variant = "webhook"
    /\ IF payload = "media"
       THEN /\ ZReceive
            /\ zbuilds' = Append(zbuilds,
                               [pc |-> "writing", kind |-> "webhook",
                                name |-> "",
                                files |-> <<[path |-> WhatsappFile(now),
                                            originalname |-> <<"w">>]>>])
            /\ resp' = NoResp
       ELSE /\ UNCHANGED <<nReqs, zbuilds>>
            /\ resp' = [op |-> "POST /webhook/whatsapp",
                        status |-> HookStatus(payload), code |-> "", error |-> "",
                        filename |-> ""]
    /\ UNCHANGED <<now, zup, zdisk, zout, zparts, alive>>
    /\ StatelessFrame

\* index.js:468, 509-515  writeFile rejects: the catch block answers 500
HookWriteFail(i) ==
    /\ Stateless
    /\ i \in 1..Len(zbuilds)
    /\ zbuilds[i].pc = "writing"
    /\ zbuilds' = RemoveAt(zbuilds, i)
    /\ resp' = ZAnswer(zbuilds[i], 500, "")
    /\ UNCHANGED <<now, nReqs, zup, zdisk, zout, zparts, alive>>
    /\ StatelessFrame

\* index.js:468-475, 51-73  writeFile resolved: the handler names the archive
\* and calls createZip, which opens the output, queues the file and finalizes
HookWritten(i) ==
    /\ Stateless
    /\ i \in 1..Len(zbuilds)
    /\ zbuilds[i].pc = "writing"
    /\ LET p == zbuilds[i].files[1].path
       IN  zdisk' = WriteFile(zdisk, p, 0)
    /\ zbuilds' = [zbuilds EXCEPT ![i].pc = "finalized", ![i].name = WhatsappZip(now)]
    /\ zout' = WriteOut(zout, WhatsappZip(now), Opened)
    /\ resp' = NoResp
    /\ UNCHANGED <<now, nReqs, zup, zparts, alive>>
    /\ StatelessFrame

\* The steps of the stateless variant.
StatelessNext ==
    \/ ZBegin
    \/ \E file \in Parts : \E r \in Rands : ZPart(file, r)
    \/ \E file \in Parts : \E r \in Rands : ZPartTooBig(file, r)
    \/ ZAbort
    \/ ZHandle
    \/ \E i \in 1..MaxStored : ZBuildError(i)
    \/ \E i \in 1..MaxStored : ZOutputError(i)
    \/ \E i \in 1..MaxStored : ZBuildClose(i)
    \/ \E i \in 1..MaxStored : ZCleanup(i)
    \/ \E name \in DownloadNames : Descargar(name)
    \/ \E tokenOk \in BOOLEAN : WebhookVerify(tokenOk)
    \/ \E payload \in Payloads : Webhook(payload)
    \/ \E i \in 1..MaxStored : HookWriteFail(i)
    \/ \E i \in 1..MaxStored : HookWritten(i)

\* index.js:15-18  the state the stateless variant starts in
StatelessInit ==
    /\ zup = NoZup
    /\ zdisk = <<>>
    /\ zout = <<>>
    /\ zbuilds = <<>>
    /\ zparts = 0
    /\ alive = TRUE

(* --------------------------- key resolution --------------------------- *)

\* Values of req.body.chatId and req.query.chatId a client can send: a JSON
\* body or a repeated query parameter carries arrays as well as strings.
ProbeVals ==
    ChatVals \cup {Str(""), Arr(<<>>), Arr(<<"">>), Arr(<<"a">>), Arr(<<"a", "b">>)}

ProbeRequests == [body : ProbeVals, query : ProbeVals]

NoProbe == [done |-> FALSE]

\* part_000:29-31  getChatId applied to the request
ResolveKey ==
    /\ variant = "probe"
    /\ ~probe.done
    /\ probe' = [probe EXCEPT !.done = TRUE, !.key = getChatId(probe.req)]
    /\ UNCHANGED <<variant, now, nReqs, resp, svars, tvars>>

(* ---------------------------- specification --------------------------- *)

Variants == {"session", "stateless", "webhook", "probe"}

Init ==
    /\ variant \in Variants
    /\ SessionInit
    /\ StatelessInit
    /\ IF variant = "probe"
       THEN probe \in {[done |-> FALSE, req |-> r, key |-> ""] : r \in ProbeRequests}
       ELSE probe = NoProbe

Next ==
    \/ SessionNext
    \/ StatelessNext
    \/ ResolveKey

Spec == Init /\ [][Next]_vars

(* ------------------------------ claims -------------------------------- *)

\* The steps, told by the response they send.
Answered(op, k) == resp.op = op /\ resp.chatId = k
Succeeded(k) == Answered("comprimir", k) /\ resp.status = 200
Rejected(k) == Answered("comprimir", k) /\ resp.status = 400
Failed(k) == Answered("comprimir", k) /\ resp.status = 500

\* old occurs in list as a subsequence: every entry, in the same order.
RECURSIVE ContainsInOrder(_, _)
ContainsInOrder(list, old) ==
    IF old = <<>> THEN TRUE
    ELSE IF list = <<>> THEN FALSE
    ELSE IF Head(list) = Head(old) THEN ContainsInOrder(Tail(list), Tail(old))
    ELSE ContainsInOrder(Tail(list), old)

\* The builds that have completed an archive.
Done == {i \in 1..Len(builds) : builds[i].pc = "done"}

\* How often x occurs in the sequence q.
Count(q, x) == Cardinality({i \in 1..Len(q) : q[i] = x})

\* Two sequences hold the same elements, each as often.
SameBag(q, r) ==
    \A x \in {q[i] : i \in 1..Len(q)} \cup {r[i] : i \in 1..Len(r)} :
        Count(q, x) = Count(r, x)

\* C1: an /upload for key k appends the request's stored files, in part order,
\* to the list of k and returns the new length as totalSesion; the list of k
\* changes in no step other than an /upload, an /iniciar or a successful
\* /comprimir for k, so between two of the latter it is the concatenation of
\* the uploads in the order they were handled.
C1_UploadAppends ==
    [][\A k \in Keys :
        /\ Answered("upload", k)' =>
              /\ FilesOf(k)' = FilesOf(k) \o up.files
              /\ resp'.recibidasAhora = Len(up.files)
              /\ resp'.totalSesion = Len(FilesOf(k)')
        /\ FilesOf(k)' # FilesOf(k) =>
              Answered("upload", k)' \/ Answered("iniciar", k)' \/ Succeeded(k)'
      ]_vars

\* C1 witness: a second /upload for the same key has been answered, and the
\* list holds the file of the first request followed by that of the second.
C1_Witness ==
    /\ resp.op = "upload"
    /\ resp.recibidasAhora = 1
    /\ resp.totalSesion = 2
    /\ FilesOf(resp.chatId)[1].part = 1
    /\ FilesOf(resp.chatId)[2].part = 2

\* C2: when a /comprimir for k answers with the archive, k is not in the
\* registry; and once a build for k has completed, the list of k stays empty
\* until an /upload for k is handled, and every /comprimir for k that finds it
\* empty is answered 400.
C2_ClearedOnSuccess ==
    [][\A k \in Keys :
        /\ Succeeded(k)' => ~Has(k)'
        /\ (FilesOf(k) = <<>> /\ FilesOf(k)' # <<>>) => Answered("upload", k)'
        /\ \A req \in Requests :
              ( /\ getChatId(req) = k
                /\ \E i \in Done : builds[i].chatId = k
                /\ FilesOf(k) = <<>>
                /\ Comprimir(req) ) => Rejected(k)'
      ]_vars

\* C2 witness: a /comprimir is answered 400 for a key whose earlier build
\* completed.
C2_Witness ==
    /\ resp.op = "comprimir"
    /\ resp.status = 400
    /\ \E i \in Done : builds[i].chatId = resp.chatId

\* The step in which build i fails.
Fails(i) ==
    /\ i \in 1..Len(builds)
    /\ builds[i].pc \in {"mkdir", "finalized"}
    /\ builds'[i].pc = "failed"

C4_EmptyRejected ==
    [][\A req \in Requests :
        (FilesOf(getChatId(req)) = <<>> /\ Comprimir(req)) =>
            /\ Rejected(getChatId(req))'
            /\ builds' = builds
            /\ outDisk' = outDisk
      ]_vars

\* C4 witness: a /comprimir was answered 400 and the output directory holds
\* no file.
C4_Witness ==
    /\ resp.op = "comprimir"
    /\ resp.status = 400
    /\ builds = << >>
    /\ DOMAIN outDisk = {}

\* C5 as claimed: a /comprimir that is rejected for lack of files leaves the
\* registry as it was.
C5_RejectionChangesNothing ==
    [][\A k \in Keys : Rejected(k)' => sessions' = sessions]_vars

\* C6 as claimed: the entries a build archives are those the list held when
\* the /comprimir was requested.
C6_ListTakenAtRequest ==
    \A i \in 1..Len(builds) :
        builds[i].pc \in {"finalized", "done"} =>
            builds[i].entries = builds[i].startFiles

\* C7 as claimed: no file location is a member of two completed archives.
C7_OneArchivePerFile ==
    \A i \in Done : \A j \in Done :
        i # j =>
            {builds[i].entries[x].path : x \in 1..Len(builds[i].entries)}
              \cap {builds[j].entries[x].path : x \in 1..Len(builds[j].entries)}
              = {}

\* C8: /iniciar for k leaves k with a session whose list is empty, whatever
\* the registry held, and the other keys as they were; a second /iniciar, at
\* any time, gives the same list as the first; an /upload for k with no files
\* leaves the list of k as it is.
C8_ResetEmpties ==
    [][\A k \in Keys :
        /\ Answered("iniciar", k)' =>
              /\ Has(k)'
              /\ FilesOf(k)' = <<>>
              /\ \A j \in Keys \ {k} : sessions'[j] = sessions[j]
              /\ \A t \in 0..MaxClock :
                    LET twice == ResetSession(sessions', k, t)
                    IN  /\ twice[k].files = FilesOf(k)'
                        /\ \A j \in Keys \ {k} : twice[j] = sessions[j]
        /\ (Answered("upload", k)' /\ resp'.recibidasAhora = 0) =>
              FilesOf(k)' = FilesOf(k)
      ]_vars

\* C8 witness: an /upload with no files has been answered for a key whose
\* session, made at an earlier time, has an empty list.
C8_Witness ==
    /\ resp.op = "upload"
    /\ resp.recibidasAhora = 0
    /\ Has(resp.chatId)
    /\ sessions[resp.chatId].files = <<>>
    /\ sessions[resp.chatId].createdAt < now

\* C9 as claimed: the archive of a successful /comprimir has as many members
\* as the list held files when it was requested, and the contents of the
\* members are the contents of the parts uploaded to those files.
C9_RoundTrip ==
    (resp.op = "comprimir" /\ resp.status = 200) =>
        LET b == builds[resp.build]
            m == outDisk[b.outName].members
        IN  b.entries = b.startFiles =>
                /\ Len(m) = Len(b.startFiles)
                /\ SameBag([j \in 1..Len(m) |-> m[j].content],
                           [j \in 1..Len(b.startFiles) |-> b.startFiles[j].part])

\* C10 as claimed: every stored part has a file of its own, so the upload
\* directory holds as many files as parts were stored.
C10_StorageNamesUnique ==
    Cardinality(DOMAIN disk) = nextPart - 1


\* A chatId value is empty: absent, the empty string or the empty array.
EmptyVal(v) == Falsy(v) \/ (v.type = "array" /\ v.val = <<>>)

\* The key the first non-empty of body chatId and query chatId gives.
FirstNonEmpty(req) ==
    IF ~EmptyVal(req.body) THEN ToString(req.body)
    ELSE IF ~EmptyVal(req.query) THEN ToString(req.query)
    ELSE "default"

\* C15: the session key of a request is the chatId of its body if that is
\* non-empty, else the chatId of its query if that is non-empty, else
\* "default"; the key is never the empty string.
C15_KeyFirstNonEmpty ==
    probe.done => /\ probe.key = FirstNonEmpty(probe.req)
                  /\ probe.key # ""

\* C18 as claimed: every file of an /upload is stored under the directory of
\* the key whose list its location is appended to, whatever the order of the
\* chatId field and the file parts in the body.
C18_StoredUnderKey ==
    \A k \in Keys :
        \A i \in 1..Len(FilesOf(k)) : FilesOf(k)[i].path.dir = k

\* C19 as claimed: no two builds, concurrent ones included, are given the
\* same output file name.
C19_ArchiveNamesUnique ==
    \A i \in 1..Len(builds) : \A j \in 1..Len(builds) :
        i # j => builds[i].outName # builds[j].outName

\* The file locations a list of entries holds.
Paths(q) == {q[i].path : i \in 1..Len(q)}

\* Location p is a member of a completed archive, or a build in flight still
\* holds it: queued already, or in the array the build will queue.
Kept(p) ==
    \E j \in 1..Len(builds) :
        \/ builds[j].pc \in {"done", "finalized"} /\ p \in Paths(builds[j].entries)
        \/ builds[j].pc = "mkdir" /\ p \in Paths(ArrayOf(builds[j]))

\* C20 as claimed: no acknowledged upload is lost.  The locations in a list
\* are acknowledged ones (an /upload pushes and answers in one step); a step
\* that takes one out of the list of k is an /iniciar for k, or leaves it in a
\* completed archive or with a build that will archive it.
C20_NoUploadLost ==
    [][\A k \in Keys :
         \A p \in Paths(FilesOf(k)) :
             p \notin Paths(FilesOf(k))' => Answered("iniciar", k)' \/ Kept(p)']_vars

\* C11 as claimed: GET /descargar/:filename serves a file only when the name
\* resolves to an archive in the output directory; every other name, one
\* that leaves the directory included, is answered 404.
C11_ServesOnlyArchives ==
    resp.op = "GET /descargar" =>
        LET filePath == PathJoin(OUTPUT_DIR, resp.name)
        IN  IF IsArchivePath(filePath)
            THEN resp.status = 200 /\ resp.served = filePath
            ELSE resp.status = 404

\* The part of a MIME type after its "/".
Subtype(mime) ==
    LET slashes == {i \in 1..Len(mime) : mime[i] = "/"}
    IN  IF slashes = {} THEN mime
        ELSE SubSeq(mime, 1 + CHOOSE i \in slashes : \A j \in slashes : j <= i,
                    Len(mime))

\* The declared type and the extension of the part both belong to the
\* allow-list {jpeg, jpg, png, gif, pdf, zip}.
OnAllowList(file) ==
    /\ Subtype(file.mimetype) \in FileTypes
    /\ Extname(file.originalname) # <<>>
    /\ ToLowerCase(Tail(Extname(file.originalname))) \in FileTypes

\* C12 as claimed: a file part is accepted iff its MIME type and its
\* extension both belong to the allow-list; a request with a part that is
\* not accepted is answered 400 UPLOAD_ERROR.
C12_AcceptedIffAllowed ==
    [][/\ \A file \in Parts : \A r \in Rands :
             ZPart(file, r) => (zup'.err = "" <=> OnAllowList(file))
       /\ (zup # NoZup /\ zup.err # "" /\ zup' = NoZup /\ alive') =>
             resp'.status = 400 /\ resp'.code = "UPLOAD_ERROR"]_vars

\* The step is the refusal of a part by the file filter: the parse of the
\* request, so far without error, takes the error of the filter.
Refused ==
    /\ zup # NoZup
    /\ zup.err = ""
    /\ zup' # NoZup
    /\ zup'.err = "Solo se permiten archivos de imagen, PDF o ZIP"

C14_NoFailureEndsProcess ==
    /\ alive
    /\ resp.op # "exit"

\* C16 as claimed: POST /webhook/whatsapp never answers with a status other
\* than 200 or 500.
C16_Only200Or500 ==
    resp.op = "POST /webhook/whatsapp" => resp.status \in {200, 500}

\* C16, amended: POST /webhook/whatsapp answers 200, or 500 on an internal
\* error, or 400 when the message is an image or document without media id,
\* and in that case, its fields being readable, always 400.
C16_WebhookStatuses ==
    [][/\ resp'.op = "POST /webhook/whatsapp" =>
             \/ resp'.status \in {200, 500}
             \/ resp'.status = 400 /\ Webhook("noid")
       /\ Webhook("noid") => resp'.status = 400]_vars

\* A message without media id has been answered 400.
C16_Witness ==
    resp.op = "POST /webhook/whatsapp" /\ resp.status = 400

\* C17: in both variants the success response of /comprimir is sent only
\* once the output file of the build has closed: in the state the response
\* is sent in, the archive it announces is whole, not merely finalized.
C17_SuccessAfterClose ==
    /\ \A k \in Keys :
          Succeeded(k) => outDisk[builds[resp.build].outName].complete
    /\ (resp.op = "POST /comprimir" /\ resp.status = 200) =>
          zout[resp.filename].complete

\* A build of the stateless variant has answered with the name of its
\* archive.
C17_Witness ==
    /\ resp.op = "POST /comprimir"
    /\ resp.status = 200
    /\ resp.filename \in DOMAIN zout
    /\ zout[resp.filename].members # <<>>

\* The step is a download that streams a file of the output directory.
ServesArchive(name) ==
    /\ Descargar(name)
    /\ resp'.status = 200
    /\ IsArchivePath(resp'.served)

\* C21 as claimed: whatever the interleaving of GET /descargar/:filename with
\* the builds of POST /comprimir, the file that is streamed is an archive
\* whose build has completed; never one still being written or one whose
\* build failed.
C21_ServedArchiveComplete ==
    [][\A name \in DownloadNames :
          ServesArchive(name) => zout[resp'.served[2]].complete]_vars

=============================================================================
